---- MODULE Spec2Model ----
(***************************************************************************)
(* shoti-srv: an HTTP service over one table urls(id UUID PRIMARY KEY,     *)
(* url TEXT NOT NULL).  The repository holds several near-identical        *)
(* variants of main.go; the model is the union of their handlers over one  *)
(* shared table:                                                           *)
(*   /new      addURL              (all variants)                          *)
(*   /list     getURLs             (all variants; /get in three of them)   *)
(*   /clr      clearURLs           (part_000:519, main.go:126)             *)
(*   /get      getVideoData        (part_000:426, no remote status check)  *)
(*   /api/get  getVideoData        (part_000:179, remote status checked)   *)
(*   /fetch    fetchAndInsertURLs  (main.go:143)                           *)
(* Every request is served by its own goroutine; the only shared state is  *)
(* the table, reached one SQL statement at a time.  A handler is therefore *)
(* a sequence of atomic steps, one per SQL statement or outbound HTTP      *)
(* call, each step including the handler's local code around it.           *)
(***************************************************************************)
EXTENDS Integers, Sequences, FiniteSets, TLC

\* ------------------------------------------------------------------ bounds
NumWorkers == 2      \* requests in flight at once
NumUUIDs == 2        \* size of the pool uuid.New() draws from
MaxBodyLen == 5      \* tokens in a request body of the decoder specification
MaxFetchLen == 1     \* entries in the list the /fetch endpoint downloads

Workers == 1..NumWorkers
UUIDs == 1..NumUUIDs

\* The sequences over S of length at most n.
RECURSIVE SeqsUpTo(_, _)
SeqsUpTo(S, n) ==
    IF n = 0 THEN {<<>>}
    ELSE LET shorter == SeqsUpTo(S, n - 1) IN
         shorter \cup {Append(q, x) : q \in shorter, x \in S}

\* ------------------------------------------------------- request bodies
\* A request body is a sequence of lexical tokens.  k is the token's kind,
\* v the text of a string token.
Tok(k, v) == [k |-> k, v |-> v]
WS == Tok("ws", "")
LBRACE == Tok("lbrace", "")
RBRACE == Tok("rbrace", "")
COLON == Tok("colon", "")
COMMA == Tok("comma", "")
NUM == Tok("num", "")
Str(s) == Tok("str", s)

\* JSON values as the scanner delivers them.
jsonStr(s) == [t |-> "str", s |-> s, m |-> <<>>]
jsonNum == [t |-> "num", s |-> "", m |-> <<>>]
jsonObj(m) == [t |-> "obj", s |-> "", m |-> m]
scanOk(next, val) == [st |-> "ok", next |-> next, val |-> val]
scanFail(st) == [st |-> st, next |-> 0, val |-> jsonNum]

RECURSIVE skipSpace(_, _)
skipSpace(b, i) ==
    IF i <= Len(b) /\ b[i].k = "ws" THEN skipSpace(b, i + 1) ELSE i

\* encoding/json's scanner over one value that starts at token i.  "eof":
\* the input ends inside the value; "syntax": a token that cannot stand there.
RECURSIVE scanValue(_, _)
RECURSIVE scanMembers(_, _, _, _)
scanValue(b, i) ==
    IF i > Len(b) THEN scanFail("eof")
    ELSE CASE b[i].k = "str" -> scanOk(i + 1, jsonStr(b[i].v))
           [] b[i].k = "num" -> scanOk(i + 1, jsonNum)
           [] b[i].k = "lbrace" -> scanMembers(b, skipSpace(b, i + 1), <<>>, TRUE)
           [] OTHER -> scanFail("syntax")

scanMembers(b, i, acc, first) ==
    IF i > Len(b) THEN scanFail("eof")
    ELSE IF b[i].k = "rbrace" /\ first THEN scanOk(i + 1, jsonObj(acc))
    ELSE IF b[i].k # "str" THEN scanFail("syntax")
    ELSE LET j == skipSpace(b, i + 1) IN
         IF j > Len(b) THEN scanFail("eof")
         ELSE IF b[j].k # "colon" THEN scanFail("syntax")
         ELSE LET r == scanValue(b, skipSpace(b, j + 1)) IN
              IF r.st # "ok" THEN r
              ELSE LET n == skipSpace(b, r.next)
                       mem == Append(acc, [key |-> b[i].v, val |-> r.val])
                   IN  IF n > Len(b) THEN scanFail("eof")
                       ELSE IF b[n].k = "rbrace" THEN scanOk(n + 1, jsonObj(mem))
                       ELSE IF b[n].k = "comma"
                            THEN scanMembers(b, skipSpace(b, n + 1), mem, FALSE)
                       ELSE scanFail("syntax")

\* The zero URL struct, and json.Unmarshal of a scanned value into it: the
\* members "id" and "url" must be strings, other members are skipped, a later
\* member overwrites an earlier one, and the first type error is reported
\* after the whole value has been stored.
zeroURL == [ID |-> "", URL |-> ""]
ErrEOF == "EOF"
ErrUnexpectedEOF == "unexpected EOF"
ErrSyntax == "invalid character"
ErrType == "json: cannot unmarshal"

RECURSIVE unmarshalMembers(_, _, _, _)
unmarshalMembers(m, k, u, err) ==
    IF k > Len(m) THEN [err |-> err, url |-> u]
    ELSE LET f == m[k] IN
         IF f.key \in {"id", "url"}
         THEN IF f.val.t = "str"
              THEN unmarshalMembers(m, k + 1,
                       IF f.key = "id" THEN [u EXCEPT !.ID = f.val.s]
                                       ELSE [u EXCEPT !.URL = f.val.s], err)
              ELSE unmarshalMembers(m, k + 1, u, IF err = "" THEN ErrType ELSE err)
         ELSE unmarshalMembers(m, k + 1, u, err)

unmarshalURL(val) ==
    IF val.t = "obj" THEN unmarshalMembers(val.m, 1, zeroURL, "")
    ELSE [err |-> ErrType, url |-> zeroURL]

\* json.NewDecoder(r.Body).Decode(&url): the first JSON value of the body.
\* A body with no token but white space is io.EOF; the bytes after the first
\* value are never read.
Decode(b) ==
    LET i == skipSpace(b, 1) IN
    IF i > Len(b) THEN [err |-> ErrEOF, url |-> zeroURL]
    ELSE LET r == scanValue(b, i) IN
         CASE r.st = "eof" -> [err |-> ErrUnexpectedEOF, url |-> zeroURL]
           [] r.st = "syntax" -> [err |-> ErrSyntax, url |-> zeroURL]
           [] OTHER -> unmarshalURL(r.val)

\* ------------------------------------------------------------ formatting
Digit(d) ==
    CASE d = 0 -> "0" [] d = 1 -> "1" [] d = 2 -> "2" [] d = 3 -> "3" [] d = 4 -> "4"
      [] d = 5 -> "5" [] d = 6 -> "6" [] d = 7 -> "7" [] d = 8 -> "8" [] d = 9 -> "9"

RECURSIVE Itoa(_)
Itoa(n) == IF n < 10 THEN Digit(n) ELSE Itoa(n \div 10) \o Digit(n % 10)

\* fmt's %d verb.
FormatInt(n) == IF n < 0 THEN "-" \o Itoa(-n) ELSE Itoa(n)

\* uuid.New().String(): one canonical text per UUID.
uuidString(u) == "uuid-" \o Itoa(u)

\* ------------------------------------------------------------- the table
\* urls(id UUID PRIMARY KEY, url TEXT NOT NULL) as the set of its rows.
Row(id, url) == [id |-> id, url |-> url]

ErrConn == "driver: bad connection"
ErrDupKey == "pq: duplicate key value violates unique constraint"
ErrNoRows == "sql: no rows in result set"
DBErrors == {"", ErrConn}

\* sqlInsert without the primary key: the row is stored whatever the table holds.
sqlInsertNoKey(t, id, url) == [err |-> "", t |-> t \cup {Row(id, url)}]

\* INSERT INTO urls (id, url) VALUES ($1, $2) under the primary key.
sqlInsert(t, id, url) ==
    IF \E r \in t : r.id = id
    THEN [err |-> ErrDupKey, t |-> t]
    ELSE [err |-> "", t |-> t \cup {Row(id, url)}]

\* sqlDelete sparing a row, as a DELETE with a WHERE clause would.
sqlDeleteKeepOne(t) == IF Cardinality(t) > 1 THEN {CHOOSE r \in t : TRUE} ELSE {}

\* DELETE FROM urls
sqlDelete(t) == {}

\* sqlSelectAll losing a row, as a loop that calls rows.Next() once too often.
sqlSelectSkipOne(t) == IF t = {} THEN {} ELSE t \ {CHOOSE r \in t : TRUE}

\* SELECT id, url FROM urls
sqlSelectAll(t) == t

\* SELECT COUNT(*) FROM urls
sqlCount(t) == Cardinality(t)

\* sqlOffset answering from a copy of the table that still holds every url.
sqlOffsetStale(t, off) == {"a", "b"}

\* SELECT url FROM urls LIMIT 1 OFFSET off: with no ORDER BY the server may
\* number the rows in any order, so any row can be the one at off; no row
\* is at an offset beyond the last.
sqlOffset(t, off) == IF off < Cardinality(t) THEN {r.url : r \in t} ELSE {}

\* ------------------------------------------------------------ responses
NoJSON == [t |-> "none", items |-> {}]
jsonNull == [t |-> "null", items |-> {}]
jsonArray(items) == [t |-> "array", items |-> items]
jsonObject(v) == [t |-> "object", items |-> {v}]

Response(status, text, json) == [status |-> status, text |-> text, json |-> json]
NoResponse == Response(0, "", NoJSON)
\* http.Error(w, text, status)
httpError(text, status) == Response(status, text, NoJSON)

\* json.NewEncoder(w).Encode(urls) for the slice getURLs builds with append
\* from a nil slice: a slice nothing was appended to is nil and encodes as
\* null, any other as an array of its elements.
encodeURLs(rows) == IF rows = {} THEN jsonNull ELSE jsonArray(rows)

StatusOK == 200
StatusCreated == 201
StatusBadRequest == 400
StatusMethodNotAllowed == 405
StatusInternalServerError == 500

MsgContentType == "Content-Type must be application/json"
MsgEmptyBody == "Empty request body"
MsgInvalidPayload == "Invalid request payload"
MsgAddFailed == "Error adding URL to database"
MsgListFailed == "Error retrieving URLs from database"
MsgMethod == "Invalid method. Only GET is allowed"
MsgClearFailed == "Error clearing URLs from database"
MsgCleared == "All URLs have been removed from the database."

\* ------------------------------------------------------------- requests
JSONType == "application/json"
CTypes == {JSONType, "application/json; charset=utf-8", ""}
Methods == {"GET", "POST"}
URLStrings == {"a", "b"}

BodyOf(u) == <<LBRACE, Str("url"), COLON, Str(u), RBRACE>>
SampleBodies == {BodyOf(u) : u \in URLStrings} \cup {<<>>, <<LBRACE, RBRACE>>}

Request(route, method, ctype, body) ==
    [route |-> route, method |-> method, ctype |-> ctype, body |-> body]
Requests ==
    {Request("/new", "POST", JSONType, b) : b \in SampleBodies} \cup
    {Request("/new", "POST", "", BodyOf("a"))} \cup
    {Request("/clr", m, "", <<>>) : m \in Methods} \cup
    {Request(r, "GET", "", <<>>) : r \in {"/list", "/get", "/api/get", "/fetch"}}

\* ---------------------------------------------------------------- state
VARIABLES
    urls,      \* the rows of table urls
    pc,        \* pc[w]: where worker w's handler stands
    req,       \* req[w]: the request worker w serves
    resp,      \* resp[w]: the response it has written
    loc,       \* loc[w]: the handler's local variables
    stmts,     \* stmts[w]: SQL statements its handler has issued
    calls,     \* calls[w]: outbound HTTP requests its handler has made
    inserted,  \* INSERT statements that succeeded since the last DELETE
    acked      \* rows addURL answered 201 for since the last DELETE

vars == <<urls, pc, req, resp, loc, stmts, calls, inserted, acked>>

NoRequest == Request("", "", "", <<>>)

\* The external API's record of a video, as both VideoInfo structs hold it.
Author(id, uniqueID, nickname) == [ID |-> id, UniqueID |-> uniqueID, Nickname |-> nickname]
Info(id, region, title, cover, duration, author) ==
    [ID |-> id, Region |-> region, Title |-> title, Cover |-> cover,
     Duration |-> duration, Author |-> author]
zeroInfo == Info("", "", "", "", 0, Author("", "", ""))

\* The locals of getRandomURL, getVideoData and fetchAndInsertURLs.
RemoteMsg(code) == IF code = 0 THEN "success" ELSE "Url parsing is failed"
Remote(kind, shape, code, info) ==
    [kind |-> kind, shape |-> shape, code |-> code, msg |-> RemoteMsg(code), info |-> info]
NoAnswer == Remote("none", "", 0, zeroInfo)

\* The locals of the handlers: err is the error of the handler's last store
\* call, answer the HTTP response getVideoInfo received.
zeroLoc == [err |-> "", count |-> 0, randomIndex |-> 0, randomURL |-> "",
            pending |-> <<>>, answer |-> NoAnswer]

Init ==
    /\ urls = {}
    /\ pc = [w \in Workers |-> "idle"]
    /\ req = [w \in Workers |-> NoRequest]
    /\ resp = [w \in Workers |-> NoResponse]
    /\ loc = [w \in Workers |-> zeroLoc]
    /\ stmts = [w \in Workers |-> 0]
    /\ calls = [w \in Workers |-> 0]
    /\ inserted = 0
    /\ acked = {}

\* net/http hands a request to a fresh goroutine, which runs the handler
\* registered for its path whatever the method.
AcceptFrom(w, requests) ==
    /\ pc[w] \in {"idle", "done"}
    /\ \E r \in requests : req' = [req EXCEPT ![w] = r]
    /\ pc' = [pc EXCEPT ![w] = "run"]
    /\ resp' = [resp EXCEPT ![w] = NoResponse]
    /\ loc' = [loc EXCEPT ![w] = zeroLoc]
    /\ stmts' = [stmts EXCEPT ![w] = 0]
    /\ calls' = [calls EXCEPT ![w] = 0]
    /\ UNCHANGED <<urls, inserted, acked>>

Accept(w) == AcceptFrom(w, Requests)

Finish(w, r) ==
    /\ pc' = [pc EXCEPT ![w] = "done"]
    /\ resp' = [resp EXCEPT ![w] = r]

\* ---------------------------------------------------------------- /new
\* contentTypeOK asking only for a header.
contentTypeOKLoose(ctype) == ctype # ""

\* r.Header.Get("Content-Type") != "application/json"
contentTypeOK(ctype) == ctype = JSONType

\* decodeErrorReply without the EOF case.
decodeErrorReplyGeneric(err) == httpError(MsgInvalidPayload, StatusBadRequest)

\* The answer to a Decode error.
decodeErrorReply(err) ==
    IF err = "EOF" THEN httpError(MsgEmptyBody, StatusBadRequest)
    ELSE httpError(MsgInvalidPayload, StatusBadRequest)

addURL(w) ==
    /\ pc[w] = "run" /\ req[w].route = "/new"
    /\ LET d == Decode(req[w].body) IN
       IF ~contentTypeOK(req[w].ctype)
       THEN /\ Finish(w, httpError(MsgContentType, StatusBadRequest))
            /\ UNCHANGED <<urls, req, loc, stmts, calls, inserted, acked>>
       ELSE IF d.err # ""
       THEN /\ Finish(w, decodeErrorReply(d.err))
            /\ UNCHANGED <<urls, req, loc, stmts, calls, inserted, acked>>
       ELSE \E u \in UUIDs, dbErr \in DBErrors :
            LET url == [d.url EXCEPT !.ID = uuidString(u)]
                r == IF dbErr # "" THEN [err |-> dbErr, t |-> urls]
                     ELSE sqlInsert(urls, url.ID, url.URL)
            IN  /\ stmts' = [stmts EXCEPT ![w] = @ + 1]
                /\ loc' = [loc EXCEPT ![w].err = r.err]
                /\ urls' = r.t
                /\ IF r.err # ""
                   THEN /\ Finish(w, httpError(MsgAddFailed, StatusInternalServerError))
                        /\ UNCHANGED <<inserted, acked>>
                   ELSE /\ Finish(w, Response(StatusCreated, "", jsonObject(url)))
                        /\ inserted' = inserted + 1
                        /\ acked' = acked \cup {Row(url.ID, url.URL)}
                /\ UNCHANGED <<req, calls>>

\* --------------------------------------------------------------- /list
getURLs(w) ==
    /\ pc[w] = "run" /\ req[w].route = "/list"
    /\ \E dbErr \in DBErrors :
         /\ stmts' = [stmts EXCEPT ![w] = @ + 1]
         /\ loc' = [loc EXCEPT ![w].err = dbErr]
         /\ IF dbErr # ""
            THEN Finish(w, httpError(MsgListFailed, StatusInternalServerError))
            ELSE Finish(w, Response(StatusOK, "", encodeURLs(sqlSelectAll(urls))))
    /\ UNCHANGED <<urls, req, calls, inserted, acked>>

\* ---------------------------------------------------------------- /clr
\* methodAllowed without the check.
methodAllowedAny(method) == TRUE

\* r.Method != http.MethodGet
methodAllowed(method) == method = "GET"

clearURLs(w) ==
    /\ pc[w] = "run" /\ req[w].route = "/clr"
    /\ IF ~methodAllowed(req[w].method)
       THEN /\ Finish(w, httpError(MsgMethod, StatusMethodNotAllowed))
            /\ UNCHANGED <<urls, req, loc, stmts, calls, inserted, acked>>
       ELSE \E dbErr \in DBErrors :
            /\ stmts' = [stmts EXCEPT ![w] = @ + 1]
            /\ loc' = [loc EXCEPT ![w].err = dbErr]
            /\ IF dbErr # ""
               THEN /\ Finish(w, httpError(MsgClearFailed, StatusInternalServerError))
                    /\ UNCHANGED <<urls, inserted, acked>>
               ELSE /\ Finish(w, Response(StatusOK, MsgCleared, NoJSON))
                    /\ urls' = sqlDelete(urls)
                    /\ inserted' = 0
                    /\ acked' = {}
            /\ UNCHANGED <<req, calls>>

\* ------------------------------------------------------ /get, /api/get
\* The external API's answer to GET https://tikwm.com/api?url=...: the
\* request fails in transport, or the body is not JSON of the expected
\* types, or it is a JSON object, either the API's envelope
\* {"code", "msg", "data": {...}} or the bare video object {"id", ...}.
Durations == {-7, 0, 30, 120}
SampleInfos ==
    {zeroInfo} \cup
    {Info("abc", "PH", "title", "cover.jpg", d, Author("uid1", "u1", "N")) : d \in Durations}
RemoteResponses ==
    {Remote("transport", "", 0, zeroInfo), Remote("malformed", "", 0, zeroInfo)} \cup
    {Remote("json", "envelope", c, i) : c \in {0, -1}, i \in SampleInfos} \cup
    {Remote("json", "bare", 0, i) : i \in SampleInfos}
SampleInfo == Info("abc", "PH", "title", "cover.jpg", 30, Author("uid1", "u1", "N"))
SampleRemotes ==
    {Remote("transport", "", 0, zeroInfo), Remote("json", "envelope", 0, SampleInfo)}

ErrTransport == "dial tcp: connection refused"
ErrDecode == "invalid character '<' looking for beginning of value"

\* Decoding into the VideoInfo struct of part_000:18 (Code, Msg, Data): the
\* envelope's members are stored, a bare video object has none of them.
decodeEnvelope(j) ==
    IF j.shape = "envelope" THEN [Code |-> j.code, Msg |-> j.msg, Data |-> j.info]
    ELSE [Code |-> 0, Msg |-> "", Data |-> zeroInfo]

\* Decoding into the VideoInfo struct of part_000:316 (ID, Region, ...,
\* Author at the top level): a bare video object is stored, the envelope has
\* none of these members.
decodeBare(j) == IF j.shape = "bare" THEN j.info ELSE zeroInfo

\* remoteFailed taking only positive codes for failures.
remoteFailedPositive(code) == code > 0

\* Whether getVideoInfo rejects a decoded answer for its status code.
remoteFailed(code) == code # 0

\* getVideoInfo of part_000:151, behind /api/get.
getVideoInfoChecked(j) ==
    CASE j.kind = "transport" ->
           [err |-> "error fetching video info: " \o ErrTransport, info |-> zeroInfo]
      [] j.kind = "malformed" ->
           [err |-> "error decoding video info: " \o ErrDecode, info |-> zeroInfo]
      [] OTHER ->
           LET v == decodeEnvelope(j) IN
           IF remoteFailed(v.Code)
           THEN [err |-> "API error: " \o v.Msg, info |-> zeroInfo]
           ELSE [err |-> "", info |-> v.Data]

\* getVideoInfo of part_000:408, behind /get.
getVideoInfoUnchecked(j) ==
    CASE j.kind = "transport" -> [err |-> ErrTransport, info |-> zeroInfo]
      [] j.kind = "malformed" -> [err |-> ErrDecode, info |-> zeroInfo]
      [] OTHER -> [err |-> "", info |-> decodeBare(j)]

getVideoInfo(route, j) ==
    IF route = "/api/get" THEN getVideoInfoChecked(j) ELSE getVideoInfoUnchecked(j)

MediaBase == "https://www.tikwm.com/video/media/hdplay/"

\* videoData with the author's handle and display name exchanged.
videoDataSwapped(info) ==
    [region |-> info.Region,
     url |-> MediaBase \o info.ID \o ".mp4",
     cover |-> info.Cover,
     title |-> info.Title,
     duration |-> FormatInt(info.Duration) \o "s",
     user |-> [username |-> info.Author.Nickname,
               nickname |-> info.Author.UniqueID,
               userID |-> info.Author.ID]]

\* The data object getVideoData builds from the video record.
videoData(info) ==
    [region |-> info.Region,
     url |-> MediaBase \o info.ID \o ".mp4",
     cover |-> info.Cover,
     title |-> info.Title,
     duration |-> FormatInt(info.Duration) \o "s",
     user |-> [username |-> info.Author.UniqueID,
               nickname |-> info.Author.Nickname,
               userID |-> info.Author.ID]]

\* The response body: VideoDataResponse behind /api/get, a map behind /get.
responseData(route, info) ==
    IF route = "/api/get"
    THEN [code |-> 200, msg |-> "success", data |-> videoData(info)]
    ELSE [code |-> 200, message |-> "success", data |-> videoData(info)]

MsgRandomURL == "Error fetching random URL: "
MsgVideo == "Error fetching video: "
ErrCount == "error getting URL count: "
ErrNoURLs == "no URLs found in the database"
ErrRetrieve == "error retrieving random URL: "

IsGet(w) == req[w].route \in {"/get", "/api/get"}

\* storeEmpty with the comparison turned: no count is below zero.
storeEmptyNegative(count) == count < 0

\* Whether getRandomURL gives up on the count it read.
storeEmpty(count) == count = 0

\* randomIndexes drawn from one index too many, as rand.Intn(count+1) + 1.
randomIndexesPast(count) == 1..(count + 1)

\* rand.Intn(count) + 1
randomIndexes(count) == 1..count

\* The OFFSET getRandomURL asks for.
offsetOf(randomIndex) == randomIndex - 1

\* getRandomURL up to its first statement, SELECT COUNT(*), and the draw.
getRandomURLCount(w) ==
    /\ pc[w] = "run" /\ IsGet(w)
    /\ stmts' = [stmts EXCEPT ![w] = @ + 1]
    /\ \E dbErr \in DBErrors :
         LET count == sqlCount(urls) IN
         IF dbErr # ""
         THEN /\ Finish(w, httpError(MsgRandomURL \o ErrCount \o dbErr,
                                     StatusInternalServerError))
              /\ loc' = [loc EXCEPT ![w].err = dbErr]
         ELSE IF storeEmpty(count)
         THEN /\ Finish(w, httpError(MsgRandomURL \o ErrNoURLs, StatusInternalServerError))
              /\ loc' = [loc EXCEPT ![w].count = count]
         ELSE IF count <= 0
         THEN \* rand.Intn panics on an argument below 1; net/http recovers the
              \* panic and closes the connection without a response.
              /\ Finish(w, NoResponse)
              /\ loc' = [loc EXCEPT ![w].count = count]
         ELSE /\ \E i \in randomIndexes(count) :
                   loc' = [loc EXCEPT ![w].count = count, ![w].randomIndex = i]
              /\ pc' = [pc EXCEPT ![w] = "offset"]
              /\ UNCHANGED resp
    /\ UNCHANGED <<urls, req, calls, inserted, acked>>

\* getRandomURL's second statement, SELECT url ... LIMIT 1 OFFSET.
getRandomURLOffset(w) ==
    /\ pc[w] = "offset"
    /\ stmts' = [stmts EXCEPT ![w] = @ + 1]
    /\ \E dbErr \in DBErrors :
         LET found == sqlOffset(urls, offsetOf(loc[w].randomIndex))
             err == IF dbErr # "" THEN dbErr ELSE ErrNoRows
         IN
         IF dbErr # "" \/ found = {}
         THEN /\ Finish(w, httpError(MsgRandomURL \o ErrRetrieve \o err,
                                     StatusInternalServerError))
              /\ loc' = [loc EXCEPT ![w].err = err]
         ELSE /\ \E u \in found : loc' = [loc EXCEPT ![w].randomURL = u]
              /\ pc' = [pc EXCEPT ![w] = "info"]
              /\ UNCHANGED resp
    /\ UNCHANGED <<urls, req, calls, inserted, acked>>

\* getVideoData after getRandomURL: the outbound call and the response.
getVideoDataFrom(w, answers) ==
    /\ pc[w] = "info"
    /\ calls' = [calls EXCEPT ![w] = @ + 1]
    /\ \E j \in answers :
         LET r == getVideoInfo(req[w].route, j) IN
         /\ loc' = [loc EXCEPT ![w].answer = j]
         /\ IF r.err # ""
            THEN Finish(w, httpError(MsgVideo \o r.err, StatusInternalServerError))
            ELSE Finish(w, Response(StatusOK, "",
                                    jsonObject(responseData(req[w].route, r.info))))
    /\ UNCHANGED <<urls, req, stmts, inserted, acked>>

getVideoData(w) == getVideoDataFrom(w, SampleRemotes)

\* -------------------------------------------------------------- /fetch
MsgFetchGet == "Error fetching URLs from external API"
MsgFetchRead == "Error reading response body"
MsgFetchParse == "Error parsing response JSON"
MsgFetchInsert == "Error inserting URL into database"
MsgFetched == "URLs fetched and added to the database."

\* What GET .../list answers: the url members of the array's elements (an
\* element without one decodes to the empty string).
FetchedURLs == {"a"}
FetchOutcomes ==
    {[kind |-> k, list |-> <<>>] : k \in {"transport", "read", "parse"}} \cup
    {[kind |-> "ok", list |-> l] : l \in SeqsUpTo(FetchedURLs, MaxFetchLen)}

fetchErrorText(kind) ==
    CASE kind = "transport" -> MsgFetchGet
      [] kind = "read" -> MsgFetchRead
      [] OTHER -> MsgFetchParse

\* fetchAndInsertURLs up to the loop.
fetchAndInsertURLsGet(w) ==
    /\ pc[w] = "run" /\ req[w].route = "/fetch"
    /\ calls' = [calls EXCEPT ![w] = @ + 1]
    /\ \E o \in FetchOutcomes :
         IF o.kind # "ok"
         THEN /\ Finish(w, httpError(fetchErrorText(o.kind), StatusInternalServerError))
              /\ UNCHANGED loc
         ELSE IF o.list = <<>>
         THEN /\ Finish(w, Response(StatusOK, MsgFetched, NoJSON))
              /\ UNCHANGED loc
         ELSE /\ loc' = [loc EXCEPT ![w].pending = o.list]
              /\ pc' = [pc EXCEPT ![w] = "insert"]
              /\ UNCHANGED resp
    /\ UNCHANGED <<urls, req, stmts, inserted, acked>>

\* One turn of the loop: a fresh id and one INSERT.
fetchAndInsertURLsInsert(w) ==
    /\ pc[w] = "insert"
    /\ stmts' = [stmts EXCEPT ![w] = @ + 1]
    /\ \E u \in UUIDs, dbErr \in DBErrors :
         LET r == IF dbErr # "" THEN [err |-> dbErr, t |-> urls]
                  ELSE sqlInsert(urls, uuidString(u), Head(loc[w].pending))
             rest == Tail(loc[w].pending)
         IN  /\ urls' = r.t
             /\ IF r.err # ""
                THEN /\ Finish(w, httpError(MsgFetchInsert, StatusInternalServerError))
                     /\ loc' = [loc EXCEPT ![w].err = r.err]
                     /\ UNCHANGED inserted
                ELSE /\ inserted' = inserted + 1
                     /\ loc' = [loc EXCEPT ![w].pending = rest]
                     /\ IF rest = <<>>
                        THEN Finish(w, Response(StatusOK, MsgFetched, NoJSON))
                        ELSE UNCHANGED <<pc, resp>>
    /\ UNCHANGED <<req, calls, acked>>

Next ==
    \E w \in Workers :
        \/ Accept(w)
        \/ addURL(w)
        \/ getURLs(w)
        \/ clearURLs(w)
        \/ getRandomURLCount(w)
        \/ getRandomURLOffset(w)
        \/ getVideoData(w)
        \/ fetchAndInsertURLsGet(w)
        \/ fetchAndInsertURLsInsert(w)

Spec == Init /\ [][Next]_vars

\* ------------------------------------------- the decoder specification
\* One POST /new whose Content-Type and body range over every header value
\* of CTypes and every token sequence up to MaxBodyLen, against a table
\* that holds one row.
Alphabet == {WS, LBRACE, RBRACE, COLON, NUM, Str("url"), Str("")}
AllBodies == SeqsUpTo(Alphabet, MaxBodyLen)
OneRow == {Row(uuidString(1), "a")}

InitDecode ==
    /\ urls = OneRow
    /\ pc = [w \in Workers |-> IF w = 1 THEN "run" ELSE "idle"]
    /\ \E c \in CTypes, b \in AllBodies :
         req = [w \in Workers |-> IF w = 1 THEN Request("/new", "POST", c, b)
                                  ELSE NoRequest]
    /\ resp = [w \in Workers |-> NoResponse]
    /\ loc = [w \in Workers |-> zeroLoc]
    /\ stmts = [w \in Workers |-> 0]
    /\ calls = [w \in Workers |-> 0]
    /\ inserted = 1
    /\ acked = {}

NextDecode == \E w \in Workers : addURL(w)

SpecDecode == InitDecode /\ [][NextDecode]_vars

\* --------------------------------------------- the video specification
\* GET /get and GET /api/get alone, against a table that holds no row or
\* one, with the external API's answer ranging over RemoteResponses.
GetRequests == {Request(r, "GET", "", <<>>) : r \in {"/get", "/api/get"}}

InitVideo ==
    /\ urls \in {{}, OneRow}
    /\ pc = [w \in Workers |-> "idle"]
    /\ req = [w \in Workers |-> NoRequest]
    /\ resp = [w \in Workers |-> NoResponse]
    /\ loc = [w \in Workers |-> zeroLoc]
    /\ stmts = [w \in Workers |-> 0]
    /\ calls = [w \in Workers |-> 0]
    /\ inserted = Cardinality(urls)
    /\ acked = {}

NextVideo ==
    \E w \in Workers :
        \/ AcceptFrom(w, GetRequests)
        \/ getRandomURLCount(w)
        \/ getRandomURLOffset(w)
        \/ getVideoDataFrom(w, RemoteResponses)

SpecVideo == InitVideo /\ [][NextVideo]_vars

\* =================================================================== claims
Done(w, route) == pc[w] = "done" /\ req[w].route = route
\* Worker w runs the one statement of the handler behind route in this step.
Serves(w, route) == pc[w] = "run" /\ req[w].route = route /\ pc'[w] = "done"
\* The record a 201 answer carries, as a row.
CreatedRow(r) == LET v == CHOOSE v \in r.json.items : TRUE IN Row(v.ID, v.URL)
\* The url a body of the shape {"url": u} submits.
ValidBodies == {BodyOf(u) : u \in URLStrings}
SubmittedURL(b) == IF b \in ValidBodies THEN b[4].v ELSE ""
UniqueIDs(rows) == \A x, y \in rows : x.id = y.id => x = y

\* C1: under every interleaving of concurrent POST /new requests, each
\* request with a JSON Content-Type and a valid body whose INSERT did not
\* fail is answered 201 with the row it stored, every INSERT that succeeded
\* since the last DELETE is one row of the table, and the ids of these rows
\* are pairwise distinct: no id collides and no row is lost.
C1_ConcurrentAdds ==
    /\ Cardinality(urls) = inserted
    /\ Cardinality({r.id : r \in urls}) = inserted
    /\ acked \subseteq urls
    /\ \A w \in Workers :
         (Done(w, "/new") /\ req[w].ctype = JSONType /\ req[w].body \in ValidBodies
              /\ loc[w].err = "")
         => /\ resp[w].status = 201
            /\ resp[w].json.t = "object"
            /\ CreatedRow(resp[w]).url = SubmittedURL(req[w].body)

\* Every worker has been answered 201 for a POST /new of its own url, and the
\* table holds one row for each.
C1_Witness ==
    /\ \A w \in Workers :
         Done(w, "/new") /\ resp[w].status = 201 /\ req[w].body \in ValidBodies
    /\ \A v, w \in Workers :
         v # w => SubmittedURL(req[v].body) # SubmittedURL(req[w].body)
    /\ Cardinality(urls) = NumWorkers
    /\ \A w \in Workers : CreatedRow(resp[w]) \in urls

C3_EmptyStoreGet ==
    \A w \in Workers :
        /\ (pc[w] = "done" /\ IsGet(w) /\ stmts[w] = 1 /\ loc[w].err = ""
              /\ loc[w].count = 0)
           => /\ resp[w].status = 500
              /\ resp[w].text = "Error fetching random URL: no URLs found in the database"
              /\ resp[w].json = NoJSON
              /\ calls[w] = 0
        /\ (IsGet(w) /\ loc[w].count = 0) => calls[w] = 0 /\ resp[w].status # 200

C3_Witness ==
    \E w \in Workers :
        /\ Done(w, "/get") /\ stmts[w] = 1 /\ loc[w].err = "" /\ loc[w].count = 0
        /\ resp[w].status = 500 /\ calls[w] = 0

\* C4: a GET /list that answers 200 after a GET /clr answered 200, no INSERT
\* having succeeded since the DELETE, carries an empty JSON array.
C4_ClearThenList ==
    [][\A w \in Workers :
         (/\ Serves(w, "/list") /\ resp'[w].status = 200
          /\ inserted = 0
          /\ \E v \in Workers : Done(v, "/clr") /\ resp[v].status = 200)
         => resp'[w].json = jsonArray({})
      ]_vars

\* C5: a request to /clr with a method other than GET is answered 405 in a
\* step that leaves the table as it was and issues no statement.
C5_ClearRejectsOtherMethods ==
    [][\A w \in Workers :
         (Serves(w, "/clr") /\ req[w].method # "GET")
         => /\ resp'[w].status = 405
            /\ urls' = urls
            /\ stmts'[w] = 0
      ]_vars

C5_Witness ==
    \E w \in Workers :
        /\ Done(w, "/clr") /\ req[w].method = "POST" /\ resp[w].status = 405
        /\ urls # {}

\* C6: a POST /new whose Content-Type is not exactly application/json is
\* answered 400 with the Content-Type message, whatever its body, in a step
\* that leaves the table as it was and issues no statement.
C6_ContentTypeRequired ==
    [][\A w \in Workers :
         (Serves(w, "/new") /\ req[w].ctype # "application/json")
         => /\ resp'[w].status = 400
            /\ resp'[w].text = "Content-Type must be application/json"
            /\ urls' = urls
            /\ stmts'[w] = 0
      ]_vars

\* A valid {"url": ...} body refused for its Content-Type parameter.
C6_Witness ==
    \E w \in Workers :
        /\ Done(w, "/new") /\ req[w].ctype = "application/json; charset=utf-8"
        /\ req[w].body = <<LBRACE, Str("url"), COLON, Str("url"), RBRACE>>
        /\ resp[w].status = 400 /\ urls = OneRow

\* A body of white space alone, the empty body among them.
Blank(b) == \A i \in 1..Len(b) : b[i].k = "ws"

\* C7 as stated: with Content-Type application/json the empty body is
\* answered 400 with the empty-body message, every other body answered 400
\* with the invalid-payload message, and a 400 adds no row.
C7_EmptyBodyOnly ==
    \A w \in Workers :
        (Done(w, "/new") /\ req[w].ctype = JSONType)
        => /\ req[w].body = <<>>
              => resp[w].status = 400 /\ resp[w].text = "Empty request body"
           /\ (req[w].body # <<>> /\ resp[w].status = 400)
              => resp[w].text = "Invalid request payload"
           /\ resp[w].status = 400 => urls = OneRow /\ stmts[w] = 0

\* C7 amended: with Content-Type application/json a body of white space
\* alone (the empty body included) is answered 400 with the empty-body
\* message, every other body answered 400 carries the invalid-payload
\* message, the two messages differ, and a 400 adds no row and issues no
\* statement.
C7_BlankBodyMessage ==
    /\ "Empty request body" # "Invalid request payload"
    /\ \A w \in Workers :
         (Done(w, "/new") /\ req[w].ctype = JSONType)
         => /\ Blank(req[w].body)
               => resp[w].status = 400 /\ resp[w].text = "Empty request body"
            /\ (~Blank(req[w].body) /\ resp[w].status = 400)
               => resp[w].text = "Invalid request payload"
            /\ resp[w].status = 400 => urls = OneRow /\ stmts[w] = 0 /\ inserted = 1
            /\ resp[w].status \in {400, 201, 500}

\* A body of one white-space token answered with the empty-body message.
C7_Witness ==
    \E w \in Workers :
        /\ Done(w, "/new") /\ req[w].ctype = JSONType /\ req[w].body = <<WS>>
        /\ resp[w].status = 400 /\ resp[w].text = "Empty request body"

\* The decimal text of the durations the external API answers with, and "s".
DurationText(d) ==
    CASE d = -7 -> "-7s" [] d = 0 -> "0s" [] d = 30 -> "30s" [] d = 120 -> "120s"
Body(r) == CHOOSE v \in r.json.items : TRUE
\* The VideoInfo the external client returns for the answer worker w received:
\* the envelope's data member behind /api/get, the bare object behind /get,
\* and the zero record where the answer has no member the struct names.
ReturnedInfo(w) ==
    LET a == loc[w].answer IN
    IF (req[w].route = "/api/get" /\ a.shape = "envelope")
         \/ (req[w].route = "/get" /\ a.shape = "bare")
    THEN a.info
    ELSE [ID |-> "", Region |-> "", Title |-> "", Cover |-> "", Duration |-> 0,
          Author |-> [ID |-> "", UniqueID |-> "", Nickname |-> ""]]

\* C8: a 200 answer of GET /get is built from the VideoInfo the external
\* client returned: url is the hdplay base, the id and ".mp4", duration the
\* decimal duration and "s", the user's username, nickname and userID are
\* the author's unique_id, nickname and id, and region, cover and title are
\* copied; the record {id "abc", duration 30, unique_id "u1"} gives
\* ".../hdplay/abc.mp4", "30s" and "u1".
C8_Normalized ==
    \A w \in Workers :
        (pc[w] = "done" /\ IsGet(w) /\ resp[w].status = 200)
        => LET info == ReturnedInfo(w)
               d == Body(resp[w]).data
           IN  /\ Body(resp[w]).code = 200
               /\ d.url = "https://www.tikwm.com/video/media/hdplay/" \o info.ID \o ".mp4"
               /\ d.duration = DurationText(info.Duration)
               /\ d.user.username = info.Author.UniqueID
               /\ d.user.nickname = info.Author.Nickname
               /\ d.user.userID = info.Author.ID
               /\ d.region = info.Region /\ d.cover = info.Cover /\ d.title = info.Title
               /\ (info.ID = "abc" /\ info.Duration = 30 /\ info.Author.UniqueID = "u1")
                  => /\ d.url = "https://www.tikwm.com/video/media/hdplay/abc.mp4"
                     /\ d.duration = "30s"
                     /\ d.user.username = "u1"

\* One stored URL, the record {id "abc", duration 30, unique_id "u1"}, 200.
C8_Witness ==
    \E w \in Workers :
        /\ pc[w] = "done" /\ IsGet(w) /\ resp[w].status = 200
        /\ Cardinality(urls) = 1
        /\ ReturnedInfo(w).ID = "abc" /\ ReturnedInfo(w).Duration = 30
        /\ ReturnedInfo(w).Author.UniqueID = "u1"
        /\ Body(resp[w]).data.duration = "30s"

\* The messages of a failed pick.
PickErrorTexts ==
    { "Error fetching random URL: error getting URL count: driver: bad connection",
      "Error fetching random URL: no URLs found in the database",
      "Error fetching random URL: error retrieving random URL: driver: bad connection",
      "Error fetching random URL: error retrieving random URL: sql: no rows in result set" }

\* What C9 says of every route: 500 at a failed pick, a failed transport and
\* a failed decode, and 200 with a body only after the outbound call
\* returned a JSON answer.
ChainFailures(w) ==
    LET a == loc[w].answer IN
    /\ resp[w].status \in {200, 500}
    /\ calls[w] = 0 => resp[w].status = 500 /\ resp[w].text \in PickErrorTexts
    /\ a.kind \in {"transport", "malformed"}
       => /\ resp[w].status = 500
          /\ calls[w] = 1
          /\ resp[w].json = NoJSON
          /\ resp[w].text \notin PickErrorTexts
    /\ resp[w].status = 200
       => /\ calls[w] = 1 /\ stmts[w] = 2 /\ a.kind = "json"
          /\ resp[w].json.t = "object"

\* C9 as stated: GET /get answers 500 at each failure point and 200 with the
\* normalized body only when every step succeeded; an answer of the external
\* API that carries a non-zero status code never yields a 200.
C9_RemoteFailureNever200 ==
    \A w \in Workers :
        (pc[w] = "done" /\ IsGet(w))
        => /\ ChainFailures(w)
           /\ (loc[w].answer.kind = "json" /\ loc[w].answer.code # 0)
              => resp[w].status = 500

\* C9 amended: GET /get answers 500 at each failure point and 200 with the
\* normalized body only when every step succeeded; behind /api/get (the
\* stricter variant) an answer that carries a non-zero status code yields
\* 500 with the remote message verbatim and never a 200, while behind /get
\* (the variant without the check) every JSON answer yields 200.
C9_GetChain ==
    \A w \in Workers :
        (pc[w] = "done" /\ IsGet(w))
        => LET a == loc[w].answer IN
           /\ ChainFailures(w)
           /\ (req[w].route = "/api/get" /\ a.kind = "json" /\ a.code # 0)
              => /\ resp[w].status = 500
                 /\ resp[w].text = "Error fetching video: API error: " \o a.msg
           /\ (a.kind = "json" /\ (req[w].route = "/get" \/ a.code = 0))
              => resp[w].status = 200

\* The stricter variant refusing an answer with code -1.
C9_Witness ==
    \E w \in Workers :
        /\ Done(w, "/api/get") /\ loc[w].answer.kind = "json" /\ loc[w].answer.code = -1
        /\ resp[w].status = 500
        /\ resp[w].text = "Error fetching video: API error: Url parsing is failed"

\* C10: every row's url is a non-empty string and every row's id is unique
\* across the rows.
C10_RowInvariant ==
    /\ \A r \in urls : r.url # ""
    /\ UniqueIDs(urls)

\* Worker w runs getRandomURL's second query in this step.
Picks(w) == pc[w] = "offset" /\ pc'[w] # "offset"
StoredURLs(t) == {r.url : r \in t}

\* C11: the offset getRandomURL draws from a count above zero is at least 0
\* and below that count; and when the table holds as many rows at the second
\* query as the count query read (as it does when no write came between)
\* and the second query did not fail in the store, getRandomURL returns no
\* error and returns the url of a row of the table.
C11_PickInRange ==
    [][\A w \in Workers :
         /\ pc'[w] = "offset"
            => /\ loc'[w].count > 0
               /\ offsetOf(loc'[w].randomIndex) >= 0
               /\ offsetOf(loc'[w].randomIndex) < loc'[w].count
         /\ (Picks(w) /\ loc[w].count = sqlCount(urls) /\ loc'[w].err # ErrConn)
            => /\ pc'[w] = "info"
               /\ loc'[w].err = ""
               /\ resp'[w] = NoResponse
               /\ loc'[w].randomURL \in StoredURLs(urls)
      ]_vars

\* One worker alone stored two rows and then served GET /get, which drew
\* the last offset and was answered 200: no other worker ever ran, so
\* nothing was written between its two queries.
C11_Witness ==
    \E w \in Workers :
        /\ \A v \in Workers \ {w} : pc[v] = "idle"
        /\ Done(w, "/get") /\ resp[w].status = 200
        /\ Cardinality(urls) = 2
        /\ loc[w].count = 2 /\ loc[w].randomIndex = 2
        /\ loc[w].randomURL \in StoredURLs(urls)

\* C12: under every interleaving, a url getRandomURL's second query returns
\* is the url of a row in the table at that query; and when that query finds
\* no row at the offset drawn from an earlier count, GET /get answers 500
\* with the retrieval error and makes no outbound request.
C12_StaleCount ==
    [][\A w \in Workers :
         Picks(w)
         => /\ loc[w].count > 0
            /\ pc'[w] = "info"
               => /\ loc'[w].randomURL \in StoredURLs(urls)
                  /\ offsetOf(loc[w].randomIndex) < sqlCount(urls)
            /\ pc'[w] # "info"
               => /\ pc'[w] = "done"
                  /\ resp'[w].status = 500
                  /\ resp'[w].json = NoJSON
                  /\ calls'[w] = 0
                  /\ loc'[w].err = ErrNoRows
                     => /\ offsetOf(loc[w].randomIndex) >= sqlCount(urls)
                        /\ resp'[w].text =
                             "Error fetching random URL: error retrieving random URL: "
                               \o ErrNoRows
      ]_vars

\* A GET /get read a count above zero, a GET /clr of another worker emptied
\* the table, and the second query found no row: 500, no outbound request.
C12_Witness ==
    \E v, w \in Workers :
        /\ Done(v, "/clr") /\ resp[v].status = 200
        /\ Done(w, "/get") /\ loc[w].count > 0 /\ loc[w].err = ErrNoRows
        /\ resp[w].status = 500 /\ calls[w] = 0
        /\ urls = {}

\* Worker w is answered 200 for /clr in this step.
Clears(w) == Serves(w, "/clr") /\ resp'[w].status = 200

\* C13: a step in which no /clr is answered 200 keeps every row of the
\* table as it is (POST /new whatever its answer, a rejected or failed /clr,
\* /list, /get); the steps of /list and /get leave the table unchanged; and
\* a step in which /clr is answered 200 leaves the table with no row.
C13_OnlyClearDestroys ==
    [][/\ (\A w \in Workers : ~Clears(w)) => urls \subseteq urls'
       /\ \A w \in Workers :
            /\ (pc[w] # "idle" /\ pc'[w] # pc[w]
                  /\ req[w].route \in {"/list", "/get", "/api/get"})
               => urls' = urls
            /\ (Serves(w, "/new") \/ (Serves(w, "/clr") /\ resp'[w].status # 200))
               => urls \subseteq urls'
            /\ (Serves(w, "/new") /\ resp'[w].status # 201) => urls' = urls
            /\ Clears(w) => urls' = {}
      ]_vars

\* A GET /list was answered with two rows, and a GET /clr answered 200
\* afterwards left the table with none.
C13_Witness ==
    \E v, w \in Workers :
        /\ Done(v, "/list") /\ resp[v].status = 200
        /\ Cardinality(resp[v].json.items) = 2
        /\ Done(w, "/clr") /\ resp[w].status = 200 /\ stmts[w] = 1
        /\ urls = {}

====
